---- MODULE Spec2Model ----
(***************************************************************************)
(* The used-paddle offer API (server.js and its two sibling revisions,     *)
(* src/unnamed/part_000 and src/unnamed/part_001): the in-memory catalog   *)
(* cache with its TTL, the upstream fetch with retry and backoff, the      *)
(* matcher, the price parser and the POST /offer handler.                  *)
(*                                                                         *)
(* Values that JavaScript lets be null or undefined are options: <<>> is   *)
(* null/undefined, <<v>> is the value v.  Text is a TLA+ string, read one  *)
(* character at a time with SubSeq.  Money in a response is in hundredths. *)
(***************************************************************************)
EXTENDS Integers, Sequences, FiniteSets, TLC

VARIABLES
  variant,   \* which revision of server.js runs
  CACHE,     \* the module-level CACHE object: data, fetchedAt (ttlMs is fixed)
  clock,     \* Date.now(), in ms since the process started
  ticks,     \* how many times the clock has advanced
  req,       \* per request in flight: the position of its handler and its locals
  sent,      \* the response sent last, with the request it answers
  pin,       \* input of the pure pipeline (price text, model text, scraped page)
  pout       \* output of the pure pipeline

vars == <<variant, CACHE, clock, ticks, req, sent, pin, pout>>

Null == <<>>
Some(v) == <<v>>

-----------------------------------------------------------------------------
(* Text *)

Char(s, i) == SubSeq(s, i, i)
Upper == "ABCDEFGHIJKLMNOPQRSTUVWXYZ"
Lower == "abcdefghijklmnopqrstuvwxyz"
Digits == {"0", "1", "2", "3", "4", "5", "6", "7", "8", "9"}
IsDigit(c) == c \in Digits
DigitVal(c) == CHOOSE d \in 0..9 : Char("0123456789", d + 1) = c
\* what the regular expression \s matches, among the characters used here
IsSpace(c) == c \in {" ", "\t", "\n", "\r"}

ToLowerChar(c) ==
  IF \E k \in 1..Len(Upper) : Char(Upper, k) = c
  THEN Char(Lower, CHOOSE k \in 1..Len(Upper) : Char(Upper, k) = c)
  ELSE c

RECURSIVE toLowerCase(_)
toLowerCase(s) ==
  IF s = "" THEN "" ELSE ToLowerChar(Char(s, 1)) \o toLowerCase(SubSeq(s, 2, Len(s)))

\* s.replace(/\s+/g, " "): every run of whitespace becomes one space
RECURSIVE CollapseFrom(_, _)
CollapseFrom(s, i) ==
  IF i > Len(s) THEN ""
  ELSE IF IsSpace(Char(s, i))
       THEN (IF i > 1 /\ IsSpace(Char(s, i - 1)) THEN "" ELSE " ") \o CollapseFrom(s, i + 1)
       ELSE Char(s, i) \o CollapseFrom(s, i + 1)
collapseSpaces(s) == CollapseFrom(s, 1)

\* s.trim()
RECURSIVE trim(_)
trim(s) ==
  IF s = "" THEN ""
  ELSE IF IsSpace(Char(s, 1)) THEN trim(SubSeq(s, 2, Len(s)))
  ELSE IF IsSpace(Char(s, Len(s))) THEN trim(SubSeq(s, 1, Len(s) - 1))
  ELSE s

normalize(str) == trim(collapseSpaces(toLowerCase(str)))

\* hay.includes(needle)
includes(hay, needle) ==
  \E k \in 0..(Len(hay) - Len(needle)) : SubSeq(hay, k + 1, k + Len(needle)) = needle

\* q.split(" ").filter(Boolean): the non-empty pieces between single spaces
RECURSIVE SplitFrom(_, _, _)
SplitFrom(s, i, cur) ==
  IF i > Len(s) THEN (IF cur = "" THEN <<>> ELSE <<cur>>)
  ELSE IF Char(s, i) = " "
       THEN (IF cur = "" THEN <<>> ELSE <<cur>>) \o SplitFrom(s, i + 1, "")
       ELSE SplitFrom(s, i + 1, cur \o Char(s, i))
splitTokens(s) == SplitFrom(s, 1, "")

\* a JavaScript value used as a condition: undefined, null and "" are falsy
Truthy(opt) == opt # Null /\ opt[1] # ""

-----------------------------------------------------------------------------
(* Numbers.  A JavaScript number is an IEEE-754 double.  A non-negative    *)
(* double is held exactly, as a count of 2^-64 in six 16-bit limbs (least  *)
(* significant first): limbs 1..4 are the fraction, limbs 5..6 the integer *)
(* part.  Every arithmetic result is rounded to 53 significant bits, ties  *)
(* to even, as the hardware does.                                          *)

Base == 2^16
Limbs(F(_)) == <<F(1), F(2), F(3), F(4), F(5), F(6)>>

\* the integer k
FromInt(k) == <<0, 0, 0, 0, k % Base, k \div Base>>
\* the value whose only set bit is bit p (bit 1 is 2^-64, bit 65 is 1)
Unit(p) == Limbs(LAMBDA i : IF i = ((p - 1) \div 16) + 1 THEN 2^((p - 1) % 16) ELSE 0)
IntPart(a) == a[5] + Base * a[6]

RECURSIVE CarryInto(_, _, _)
CarryInto(a, b, i) ==
  IF i = 1 THEN 0 ELSE (a[i - 1] + b[i - 1] + CarryInto(a, b, i - 1)) \div Base
Add(a, b) == Limbs(LAMBDA i : (a[i] + b[i] + CarryInto(a, b, i)) % Base)

RECURSIVE MulCarryInto(_, _, _)
MulCarryInto(a, k, i) ==
  IF i = 1 THEN 0 ELSE (a[i - 1] * k + MulCarryInto(a, k, i - 1)) \div Base
MulSmall(a, k) == Limbs(LAMBDA i : (a[i] * k + MulCarryInto(a, k, i)) % Base)

\* the remainder of limbs i..6 divided by d; long division from the top limb
RECURSIVE RemFrom(_, _, _)
RemFrom(a, d, i) == IF i > 6 THEN 0 ELSE (RemFrom(a, d, i + 1) * Base + a[i]) % d
DivSmall(a, d) == Limbs(LAMBDA i : (RemFrom(a, d, i + 1) * Base + a[i]) \div d)

BitAt(a, p) == (a[((p - 1) \div 16) + 1] \div 2^((p - 1) % 16)) % 2
BitLen(a) ==
  IF \E p \in 1..96 : BitAt(a, p) = 1
  THEN CHOOSE p \in 1..96 : BitAt(a, p) = 1 /\ \A q \in (p + 1)..96 : BitAt(a, q) = 0
  ELSE 0
\* a with its n low bits cleared
ClearLow(a, n) ==
  Limbs(LAMBDA i : IF i * 16 <= n THEN 0
                   ELSE IF (i - 1) * 16 >= n THEN a[i]
                   ELSE a[i] - (a[i] % 2^(n - (i - 1) * 16)))

\* a < b
FLess(a, b) == \E i \in 1..6 : a[i] < b[i] /\ \A j \in (i + 1)..6 : a[j] = b[j]

\* The double nearest the exact value, which is a, or just above a when sticky.
RoundDouble(a, sticky) ==
  LET d == BitLen(a) - 53
  IN IF d <= 0 THEN a
     ELSE LET rest == sticky \/ ClearLow(a, d - 1) # a
              up == BitAt(a, d) = 1 /\ (rest \/ BitAt(a, d + 1) = 1)
          IN IF up THEN Add(ClearLow(a, d), Unit(d + 1)) ELSE ClearLow(a, d)

\* parseFloat of a text "digits.dd" worth `cents` hundredths
parseFloatCents(cents) ==
  RoundDouble(DivSmall(FromInt(cents), 100), RemFrom(FromInt(cents), 100, 1) # 0)
FAdd(a, b) == RoundDouble(Add(a, b), FALSE)
\* a / 2 and a * 0.5: exact
FHalf(a) == DivSmall(a, 2)
FMul100(a) == RoundDouble(MulSmall(a, 100), FALSE)
\* Number.EPSILON = 2^-52
EPSILON == Unit(13)
\* Math.round: the nearest integer, a tie going up
MathRound(a) == IntPart(Add(a, Unit(64)))
\* +a.toFixed(2), in hundredths: the nearest hundredth of the exact value, a tie going up
toFixed2(a) == IntPart(Add(MulSmall(a, 100), Unit(64)))

-----------------------------------------------------------------------------
(* PriceParser *)

\* the value of a run of decimal digits
RECURSIVE DigitsValue(_)
DigitsValue(s) ==
  IF s = "" THEN 0 ELSE 10 * DigitsValue(SubSeq(s, 1, Len(s) - 1)) + DigitVal(Char(s, Len(s)))

\* the end of the maximal run of digits that starts at i (i - 1 when there is none)
RECURSIVE DigitRunEnd(_, _)
DigitRunEnd(s, i) ==
  IF i <= Len(s) /\ IsDigit(Char(s, i)) THEN DigitRunEnd(s, i + 1) ELSE i - 1

\* priceText.match(/[\d]+\.\d{2}/g): the matches from position i on, left to right,
\* each as the matched text
RECURSIVE MatchesFrom(_, _)
MatchesFrom(s, i) ==
  IF i > Len(s) THEN <<>>
  ELSE LET e == DigitRunEnd(s, i)
       IN IF /\ e >= i
             /\ e + 3 <= Len(s)
             /\ Char(s, e + 1) = "."
             /\ IsDigit(Char(s, e + 2))
             /\ IsDigit(Char(s, e + 3))
          THEN <<SubSeq(s, i, e + 3)>> \o MatchesFrom(s, e + 4)
          ELSE MatchesFrom(s, i + 1)
decimalMatches(priceText) == MatchesFrom(priceText, 1)

\* the hundredths a matched text "digits.dd" denotes
CentsOf(m) == 100 * DigitsValue(SubSeq(m, 1, Len(m) - 3)) + DigitsValue(SubSeq(m, Len(m) - 1, Len(m)))

FMin(nums) == CHOOSE k \in 1..Len(nums) : \A j \in 1..Len(nums) : ~FLess(nums[j], nums[k])
FMax(nums) == CHOOSE k \in 1..Len(nums) : \A j \in 1..Len(nums) : ~FLess(nums[k], nums[j])

\* priceParse(priceText): null, or {lo, hi, mid}
priceParse(priceText) ==
  LET ms == decimalMatches(priceText)
      nums == [k \in 1..Len(ms) |-> parseFloatCents(CentsOf(ms[k]))]
  IN IF Len(ms) = 0 THEN Null
     ELSE LET lo == nums[FMin(nums)]
              hi == nums[FMax(nums)]
          IN Some([lo |-> lo, hi |-> hi, mid |-> FHalf(FAdd(lo, hi))])

\* Math.round((mid * 0.5 + Number.EPSILON) * 100) / 100, in hundredths
fixedOffer(mid) == MathRound(FMul100(FAdd(FHalf(mid), EPSILON)))

-----------------------------------------------------------------------------
(* Extractor.  A fetched page is the sequence of its candidate elements,   *)
(* each with the raw text found for its name and for its price.            *)

Variants == {"server.js", "part_000", "part_001"}
\* the revisions with fetchWithRetry and the stale-cache fallback
HasRetry(v) == v \in {"part_000", "part_001"}

\* /\$[\d]/.test(s)
hasDollarDigit(s) == \E k \in 1..(Len(s) - 1) : Char(s, k) = "$" /\ IsDigit(Char(s, k + 1))

\* the condition under which a candidate is pushed to items
keepCandidate(v, nameText, priceText) ==
  IF v = "part_000"
  THEN nameText # "" /\ priceText # "" /\ includes(priceText, "$")
  ELSE nameText # "" /\ hasDollarDigit(priceText)

RECURSIVE extractItems(_, _)
extractItems(v, page) ==
  IF page = <<>> THEN <<>>
  ELSE LET nameText == trim(page[1].name)
           priceText == trim(collapseSpaces(page[1].price))
       IN (IF keepCandidate(v, nameText, priceText)
           THEN <<[name |-> nameText, price |-> priceText]>> ELSE <<>>)
          \o extractItems(v, Tail(page))

\* the test with >= for >: on equal length the later listing replaces the kept one
replacesKept_orEqual(it, kept) == Len(it.price) >= Len(kept.price)

\* does a listing replace the one the Map holds under the same key
replacesKept(it, kept) == Len(it.price) > Len(kept.price)

\* the loop over items filling the Map byName; the Map is the sequence of its
\* [key, value] entries in insertion order (set on a present key keeps its place)
RECURSIVE dedupFrom(_, _, _)
dedupFrom(items, k, byName) ==
  IF k > Len(items) THEN byName
  ELSE LET it == items[k]
           key == normalize(it.name)
           at == {j \in 1..Len(byName) : byName[j].key = key}
       IN IF at = {}
          THEN dedupFrom(items, k + 1, Append(byName, [key |-> key, value |-> it]))
          ELSE LET j == CHOOSE j \in at : TRUE
               IN IF replacesKept(it, byName[j].value)
                  THEN dedupFrom(items, k + 1, [byName EXCEPT ![j].value = it])
                  ELSE dedupFrom(items, k + 1, byName)

\* Array.from(byName.values())
dedupe(items) == LET byName == dedupFrom(items, 1, <<>>)
                 IN [j \in 1..Len(byName) |-> byName[j].value]

\* the scrape with the new listings added to those the cache holds, in place of
\* a fresh array
scrapeData_merged(v, page) ==
  dedupe((IF CACHE.data = Null THEN <<>> ELSE CACHE.data[1]) \o extractItems(v, page))

\* what a successful scrape of the page puts in the cache
scrapeData(v, page) == dedupe(extractItems(v, page))

-----------------------------------------------------------------------------
(* Matcher *)

ALIASES == <<
  <<"peresus pro 4", "peresus pro iv">>,
  <<"peresus pro iv", "peresus pro iv">>,
  <<"ben johns perseus", "peresus pro iv">>,
  <<"joola perseus", "peresus pro iv">>,
  <<"perseus pro", "peresus pro">>,
  <<"bantam exps", "bantam exps">>,
  <<"bantam xl", "bantam xl">>,
  <<"onyx pro", "onyx">> >>

\* the loop over Object.entries(ALIASES): the first alias the query includes wins
RECURSIVE aliasFrom(_, _)
aliasFrom(q, k) ==
  IF k > Len(ALIASES) THEN q
  ELSE IF includes(q, ALIASES[k][1]) THEN ALIASES[k][2]
  ELSE aliasFrom(q, k + 1)
aliasRewrite(q) == aliasFrom(q, 1)

\* the query the substring and token phases work on
matchQuery(v, model) == IF HasRetry(v) THEN aliasRewrite(normalize(model)) ELSE normalize(model)

contains(n, q) == includes(n, q) \/ includes(q, n)
MinOf(a, b) == IF a < b THEN a ELSE b

\* the count with n === t for n.includes(t): only a name that is one word of the
\* query counts
tokenHits_wholeName(qTokens, n) == Cardinality({k \in 1..Len(qTokens) : n = qTokens[k]})

\* qTokens.filter(t => n.includes(t)).length
tokenHits(qTokens, n) == Cardinality({k \in 1..Len(qTokens) : includes(n, qTokens[k])})

\* server.js, substring phase: the candidate after items k.. of the dataset
RECURSIVE substringBest(_, _, _, _)
substringBest(dataset, q, k, candidate) ==
  IF k > Len(dataset) THEN candidate
  ELSE LET n == normalize(dataset[k].name)
           score == MinOf(Len(n), Len(q))
       IN IF contains(n, q) /\ (candidate = Null \/ score > candidate[1].score)
          THEN substringBest(dataset, q, k + 1, Some([item |-> dataset[k], score |-> score]))
          ELSE substringBest(dataset, q, k + 1, candidate)

\* part_000, part_001, substring phase: the first containment match is returned
RECURSIVE substringFirst(_, _, _)
substringFirst(dataset, q, k) ==
  IF k > Len(dataset) THEN Null
  ELSE IF contains(normalize(dataset[k].name), q)
       THEN Some([item |-> dataset[k], score |-> 0])
       ELSE substringFirst(dataset, q, k + 1)

\* the test with the condition hits > 0 dropped: an item no token of the query
\* occurs in can be taken
tokenBetter_anyHits(v, hits, item, alt) ==
  \/ alt = Null
  \/ hits > alt[1].hits
  \/ ~HasRetry(v) /\ hits = alt[1].hits /\ Len(item.name) > Len(alt[1].item.name)

\* does an item with `hits` token hits replace the best one so far
tokenBetter(v, hits, item, alt) ==
  /\ hits > 0
  /\ \/ alt = Null
     \/ hits > alt[1].hits
     \/ ~HasRetry(v) /\ hits = alt[1].hits /\ Len(item.name) > Len(alt[1].item.name)

RECURSIVE tokenBest(_, _, _, _, _)
tokenBest(v, dataset, qTokens, k, alt) ==
  IF k > Len(dataset) THEN alt
  ELSE LET hits == tokenHits(qTokens, normalize(dataset[k].name))
       IN IF tokenBetter(v, hits, dataset[k], alt)
          THEN tokenBest(v, dataset, qTokens, k + 1, Some([item |-> dataset[k], hits |-> hits]))
          ELSE tokenBest(v, dataset, qTokens, k + 1, alt)

substringPhase(v, dataset, q) ==
  IF HasRetry(v) THEN substringFirst(dataset, q, 1) ELSE substringBest(dataset, q, 1, Null)

\* bestMatch(model, dataset): null, or the matched listing
bestMatch(v, model, dataset) ==
  IF normalize(model) = "" THEN Null
  ELSE LET q == matchQuery(v, model)
           candidate == substringPhase(v, dataset, q)
       IN IF candidate # Null THEN Some(candidate[1].item)
          ELSE LET alt == tokenBest(v, dataset, splitTokens(q), 1, Null)
               IN IF alt # Null THEN Some(alt[1].item) ELSE Null

-----------------------------------------------------------------------------
(* POST /offer: the responses *)

\* notes || ""
notesOrEmpty(notes) == IF Truthy(notes) THEN notes[1] ELSE ""

Response(status, ok) ==
  [status |-> status, ok |-> ok, error |-> Null, found |-> Null, offer |-> Null,
   message |-> Null, referencePrice |-> Null, referenceMidpoint |-> Null,
   policy |-> Null, echo |-> Null]

Echo(body, matched) ==
  [model |-> matched, submittedModel |-> body.model[1], condition |-> body.condition[1],
   notes |-> notesOrEmpty(body.notes)]

validationResponse ==
  [Response(400, FALSE) EXCEPT !.error = Some("Missing required fields: model, condition")]

\* the failure response with the message of the caught error appended; the error
\* of a rejected fetch names the address that was requested
failureResponse_withCause ==
  [Response(500, FALSE) EXCEPT !.error = Some("Offer calculation failed: request to "
     \o "https://www.pickleballwarehouse.com/usedpaddles.html" \o " failed")]

failureResponse ==
  [Response(500, FALSE) EXCEPT !.error = Some("Offer calculation failed. Please try again shortly.")]

\* the guard with the test of condition forgotten
missingFields_modelOnly(body) == ~Truthy(body.model)

\* the guard of the 400 response
missingFields(body) == ~Truthy(body.model) \/ ~Truthy(body.condition)

\* the handler from bestMatch on, given the dataset scrapeUsedPaddles returned
offerResponse(v, body, dataset) ==
  LET match == bestMatch(v, body.model[1], dataset)
  IN IF match = Null
     THEN [Response(200, TRUE) EXCEPT
             !.found = Some(FALSE),
             !.message = Some("Model not currently available for offer calculation."),
             !.echo = Some(Echo(body, Null))]
     ELSE LET parsed == priceParse(match[1].price)
          IN IF parsed = Null
             THEN [Response(200, TRUE) EXCEPT
                     !.found = Some(TRUE),
                     !.message = Some("Price unavailable for matched model."),
                     !.echo = Some(Echo(body, Null))]
             ELSE [Response(200, TRUE) EXCEPT
                     !.found = Some(TRUE),
                     !.offer = Some(fixedOffer(parsed[1].mid)),
                     !.referencePrice = Some(match[1].price),
                     !.referenceMidpoint = Some(toFixed2(parsed[1].mid)),
                     !.policy = Some("Offer equals 50% of the current used-price midpoint."),
                     !.echo = Some(Echo(body, Some(match[1].name)))]

-----------------------------------------------------------------------------
(* The server: the cache, the clock and the requests in flight *)

\* the address scrapeUsedPaddles fetches
SOURCE_URL(v) ==
  IF v = "part_000" THEN "https://pickleballcentral.com/deals/used-pickleball-paddles/"
  ELSE "https://www.pickleballwarehouse.com/usedpaddles.html"

\* CACHE.ttlMs
ttlMs == 5 * 60 * 1000
\* the default of fetchWithRetry's retries parameter
retries == 3
\* the delay of the setTimeout after attempt i (0-based) failed
backoffMs(i) == 3000 * (i + 1)

\* The revisions whose server is explored.  scrapeUsedPaddles and fetchWithRetry
\* of part_000 are those of part_001 line for line (only the selectors of the
\* extractor and the source URL differ), so part_001 stands for both here.
ServerVariants == {"server.js", "part_001"}

\* the handlers that may be in flight at once
Requests == {1, 2}
\* how often the clock advances in one behaviour
MaxTicks == 2
\* the steps by which the clock advances
Deltas == {1, 299999}

\* what the upstream may serve: status codes, and pages of candidate elements
Statuses == {200, 404, 406, 500}
PageEmpty == <<>>
PageA == <<[name |-> "Onyx Z5", price |-> "$4.27"]>>
\* a page whose only candidate has no price in dollars: it yields no listing
PageJunk == <<[name |-> "Onyx Z5", price |-> "call us"]>>
PageB == <<[name |-> "Bantam", price |-> "$45.00"]>>
Pages == {PageEmpty, PageA, PageJunk, PageB}

\* the request bodies clients send
Bodies == {
  [model |-> Some("onyx"), condition |-> Some("good"), notes |-> Null],
  [model |-> Null, condition |-> Some("good"), notes |-> Null],
  [model |-> Some("onyx"), condition |-> Some(""), notes |-> Some("n")] }

\* res.ok
statusOk(status) == status >= 200 /\ status <= 299
\* the statuses fetchWithRetry names as worth a retry
retryStatus(status) == status = 406 \/ status >= 500
\* One upstream exchange: fetch() rejects (threw), or resolves with a status and
\* res.text() then rejects (textThrew) or yields the page.
Exchanges ==
  {[threw |-> TRUE, status |-> 0, textThrew |-> FALSE, page |-> PageEmpty]}
  \cup {[threw |-> FALSE, status |-> st, textThrew |-> TRUE, page |-> PageEmpty] : st \in Statuses}
  \cup {[threw |-> FALSE, status |-> st, textThrew |-> FALSE, page |-> PageEmpty] : st \in Statuses \ {200}}
  \cup {[threw |-> FALSE, status |-> 200, textThrew |-> FALSE, page |-> pg] : pg \in Pages}

\* hadData: what the cache test read in CACHE.data, a catalog (TRUE) or null
Idle == [pc |-> "idle", body |-> Null, now |-> 0, hadData |-> FALSE, i |-> 0, res |-> Null,
         timer |-> Null]

\* the test with <= for <: an entry exactly ttlMs old still counts as fresh
cacheHit_inclusive(cache, now) == cache.data # Null /\ now - cache.fetchedAt <= ttlMs
\* the test with CACHE.data.length for CACHE.data: an empty catalog counts as no entry
cacheHit_nonEmpty(cache, now) ==
  cache.data # Null /\ cache.data[1] # <<>> /\ now - cache.fetchedAt < ttlMs

\* the test without the age: a cached catalog is served however old it is
cacheHit_anyAge(cache, now) == cache.data # Null

\* the test at the top of scrapeUsedPaddles
cacheHit(cache, now) == cache.data # Null /\ now - cache.fetchedAt < ttlMs

\* the test of the catch block of scrapeUsedPaddles: is the cached data returned
staleFallback(v, cache) == HasRetry(v) /\ cache.data # Null

Init ==
  /\ variant \in ServerVariants
  /\ CACHE = [data |-> Null, fetchedAt |-> 0]
  /\ clock = 0
  /\ ticks = 0
  /\ req = [r \in Requests |-> Idle]
  /\ sent = Null
  /\ pin = Null
  /\ pout = Null

\* res.status(..).json(..): the response goes out and the handler ends.  path is
\* the branch of scrapeUsedPaddles the handler took, dataset what it returned,
\* hadData what the cache test had read.
Send(r, body, hadData, path, dataset, response) ==
  /\ sent' = Some([to |-> r, body |-> body, hadData |-> hadData, path |-> path,
                   dataset |-> dataset, response |-> response])
  /\ req' = [req EXCEPT ![r] = Idle]

\* POST /offer arrives: the handler runs to its response or to the first fetch.
\* A request takes the first free handler slot.
Receive(r, body) ==
  /\ sent = Null
  /\ req[r].pc = "idle"
  /\ \A q \in Requests : req[q].pc = "idle" => ~(q < r)
  /\ IF missingFields(body)
     THEN Send(r, body, FALSE, "validation", Null, validationResponse)
     ELSE IF cacheHit(CACHE, clock)
     THEN Send(r, body, TRUE, "hit", CACHE.data, offerResponse(variant, body, CACHE.data[1]))
     ELSE /\ req' = [req EXCEPT ![r] = [Idle EXCEPT !.pc = "fetch", !.body = Some(body),
                                                    !.now = clock, !.hadData = CACHE.data # Null,
                                                    !.i = 0]]
          /\ sent' = sent
  /\ UNCHANGED <<variant, CACHE, clock, ticks, pin, pout>>

\* the loop without the test for the last attempt: it waits and tries again
\* after every failure
retryAfter_always(v, i, x) ==
  /\ HasRetry(v)
  /\ x.threw \/ ~statusOk(x.status)

\* must fetchWithRetry wait and try again after this outcome of attempt i
retryAfter(v, i, x) ==
  /\ HasRetry(v)
  /\ i # retries - 1
  /\ x.threw \/ ~statusOk(x.status)

\* does the attempt hand a response to scrapeUsedPaddles (rather than throw)
returnsResponse(v, i, x) ==
  /\ ~x.threw
  /\ \/ statusOk(x.status)
     \/ HasRetry(v) /\ retryStatus(x.status) /\ i = retries - 1

\* The fetch of the current attempt settles, and with it the read of the body when
\* the response reaches scrapeUsedPaddles: the handler runs on to the backoff
\* timer or to its response.
FetchSettles(r, x) ==
  /\ sent = Null
  /\ req[r].pc = "fetch"
  /\ IF retryAfter(variant, req[r].i, x)
     THEN /\ req' = [req EXCEPT ![r] = [@ EXCEPT !.pc = "backoff",
                       !.res = Some([threw |-> x.threw, status |-> x.status]),
                       !.timer = Some([setAt |-> clock, delay |-> backoffMs(req[r].i)])]]
          /\ UNCHANGED <<CACHE, sent>>
     ELSE IF returnsResponse(variant, req[r].i, x) /\ ~x.textThrew /\ statusOk(x.status)
     THEN LET data == scrapeData(variant, x.page)
          IN /\ CACHE' = [data |-> Some(data), fetchedAt |-> req[r].now]
             /\ Send(r, req[r].body[1], req[r].hadData, "refresh", Some(data),
                     offerResponse(variant, req[r].body[1], data))
     ELSE IF staleFallback(variant, CACHE)
     THEN /\ CACHE' = CACHE
          /\ Send(r, req[r].body[1], req[r].hadData, "stale", CACHE.data,
                  offerResponse(variant, req[r].body[1], CACHE.data[1]))
     ELSE /\ CACHE' = CACHE
          /\ Send(r, req[r].body[1], req[r].hadData, "failed", Null, failureResponse)
  /\ UNCHANGED <<variant, clock, ticks, pin, pout>>

\* the backoff timer fires and the loop starts the next attempt
TimerFires(r) ==
  /\ sent = Null
  /\ req[r].pc = "backoff"
  /\ clock >= req[r].timer[1].setAt + req[r].timer[1].delay
  /\ req' = [req EXCEPT ![r] = [@ EXCEPT !.pc = "fetch", !.i = @ + 1, !.res = Null, !.timer = Null]]
  /\ UNCHANGED <<variant, CACHE, clock, ticks, sent, pin, pout>>

\* time passes
Tick(d) ==
  /\ sent = Null
  /\ ticks < MaxTicks
  /\ clock' = clock + d
  /\ ticks' = ticks + 1
  /\ UNCHANGED <<variant, CACHE, req, sent, pin, pout>>

\* the turn of the event loop that sent a response ends
TurnEnds ==
  /\ sent # Null
  /\ sent' = Null
  /\ UNCHANGED <<variant, CACHE, clock, ticks, req, pin, pout>>

Next ==
  \/ \E r \in Requests, body \in Bodies : Receive(r, body)
  \/ \E r \in Requests, x \in Exchanges : FetchSettles(r, x)
  \/ \E r \in Requests : TimerFires(r)
  \/ \E d \in Deltas : Tick(d)
  \/ TurnEnds

Spec == Init /\ [][Next]_vars

-----------------------------------------------------------------------------
(* The handler on one page and one request: extraction, match, price, offer. *)
(* The three revisions are run on pages and bodies richer than the server    *)
(* above is explored with.                                                   *)

OfferPages == {
  <<>>,
  <<[name |-> "Onyx Z5", price |-> "$4.27"]>>,
  <<[name |-> "Joola Perseus Pro IV", price |-> "$199.99"]>>,
  <<[name |-> "JOOLA  Perseus Pro IV", price |-> "$120.00 - $150.00"],
    [name |-> "Onyx Z5 ", price |-> "from $45"]>>,
  <<[name |-> "Bantam", price |-> "$99.99 $100.00"],
    [name |-> "Bantam EXPS", price |-> "$45.00"],
    [name |-> "bantam  exps", price |-> "$1,299.99 sale"]>>,
  <<[name |-> "Onyx Z5", price |-> "$4.27"],
    [name |-> "Onyx", price |-> "$30.00"],
    [name |-> "Onyx Pro Max", price |-> "$60.00"],
    [name |-> "onyx  z5", price |-> "$9.99"],
    [name |-> "ONYX", price |-> "$25.00"],
    [name |-> "Onyx pro max", price |-> "$60.00 new"],
    [name |-> "Bantam", price |-> "$45.00"]>>,
  <<[name |-> "Onyx", price |-> "$ call"],
    [name |-> " ", price |-> "$5.00"],
    [name |-> "Perseus", price |-> "$2.01"]>> }

OfferModels ==
  {"onyx", "Onyx  Z5", "joola perseus", "perseus pro 4", "ben johns perseus", "bantam exps",
   "z5 max", "pro", "zzz", " "}
OfferNotes == {Null, Some(""), Some("scuffed")}
OfferBodies ==
  {[model |-> Some(m), condition |-> Some("good"), notes |-> n] : m \in OfferModels, n \in OfferNotes}

OfferInit ==
  /\ variant \in Variants
  /\ CACHE = [data |-> Null, fetchedAt |-> 0]
  /\ clock = 0
  /\ ticks = 0
  /\ req = [r \in Requests |-> Idle]
  /\ sent = Null
  /\ pin \in {Some([page |-> pg, body |-> b]) : pg \in OfferPages, b \in OfferBodies}
  /\ pout = Null

\* scrapeUsedPaddles on a page served with status 200: the dataset it returns
ScrapePage ==
  /\ pin # Null
  /\ pout = Null
  /\ pout' = Some([dataset |-> scrapeData(variant, pin[1].page), response |-> Null])
  /\ UNCHANGED <<variant, CACHE, clock, ticks, req, sent, pin>>

\* the handler from bestMatch to its response
Offer ==
  /\ pout # Null
  /\ pout[1].response = Null
  /\ pout' = Some([pout[1] EXCEPT
                     !.response = Some(offerResponse(variant, pin[1].body, pout[1].dataset))])
  /\ UNCHANGED <<variant, CACHE, clock, ticks, req, sent, pin>>

OfferNext == ScrapePage \/ Offer

OfferSpec == OfferInit /\ [][OfferNext]_vars

-----------------------------------------------------------------------------
(* Claims about the cache, the fetch and the handler *)

\* a request field that is there and not empty
Present(field) == Len(field) = 1 /\ field[1] # ""
BodyValid(body) == Present(body.model) /\ Present(body.condition)
\* this step sends a response
Sends == sent = Null /\ sent' # Null
\* this step is the arrival of a valid request in slot r
ReceivedValid(r) ==
  /\ sent = Null
  /\ req[r].pc = "idle"
  /\ \/ req'[r].pc = "fetch"
     \/ sent' # Null /\ sent'[1].to = r /\ BodyValid(sent'[1].body)
InFlight == {r \in Requests : req[r].pc \in {"fetch", "backoff"}}

\* C1: a valid request that arrives when the cache holds a catalog is never
\* answered with the failure "Offer calculation failed": when its refresh fails,
\* the cached catalog is used.
C1_NoFailureOncePopulated ==
  (sent # Null /\ BodyValid(sent[1].body) /\ sent[1].hadData)
    => /\ sent[1].response.status = 200
       /\ sent[1].path \in {"hit", "refresh", "stale"}

\* C2: a valid request that finds a catalog cached is answered from it, with no
\* fetch and the entry untouched, exactly when now - fetchedAt < 300000 ms;
\* otherwise it starts a refresh attempt.
C2_HitExactlyWhenFresh ==
  [][\A r \in Requests :
       (ReceivedValid(r) /\ CACHE.data # Null) =>
         IF clock - CACHE.fetchedAt < 300000
         THEN /\ sent' # Null
              /\ sent'[1].path = "hit"
              /\ sent'[1].dataset = CACHE.data
              /\ CACHE' = CACHE
              /\ req' = req
         ELSE /\ sent' = Null
              /\ req'[r].pc = "fetch"
              /\ req'[r].i = 0
              /\ req'[r].now = clock
              /\ CACHE' = CACHE]_vars

\* a request has just been answered from an entry 299999 ms old
C2_Witness ==
  /\ sent # Null
  /\ sent[1].path = "hit"
  /\ clock - CACHE.fetchedAt = 299999

\* C3: the failure response is sent only when no catalog has ever been cached.
C3_FailureOnlyWithoutCache ==
  (sent # Null /\ sent[1].response.status = 500) => CACHE.data = Null

\* C4: at no time are two upstream refreshes in flight.
C4_SingleFlight == Cardinality(InFlight) <= 1

\* C5: a status that is not a success, not 406 and below 500 is never followed by
\* a backoff wait and a further attempt.
C5_TerminalStatusNotRetried ==
  \A r \in Requests :
    req[r].pc = "backoff" =>
      \/ req[r].res[1].threw
      \/ req[r].res[1].status = 406
      \/ req[r].res[1].status >= 500

\* C6: a fetch makes at most 3 attempts, and attempt n+1 starts only after attempt
\* n ended with 406, a status >= 500 or an exception, and after a wait of 3 s * n.
C6_RetryOnlyAfterTransientFailure ==
  [][\A r \in Requests :
       (req[r].pc = "backoff" /\ req'[r].pc = "fetch") =>
         /\ req'[r].i + 1 <= 3
         /\ \/ req[r].res[1].threw
            \/ req[r].res[1].status = 406
            \/ req[r].res[1].status >= 500
         /\ clock - req[r].timer[1].setAt >= 3000 * req'[r].i]_vars

\* C7: a request whose model or condition is missing or empty is answered with
\* the validation failure and no offer; it never reaches the cache or the
\* upstream, and the cache entry and the requests in flight stay as they are.
C7_ValidationTouchesNothing ==
  [][/\ \A r \in Requests : req'[r].pc # "idle" => BodyValid(req'[r].body[1])
     /\ (Sends /\ ~BodyValid(sent'[1].body)) =>
          /\ sent'[1].response.status = 400
          /\ sent'[1].response.ok = FALSE
          /\ sent'[1].response.offer = Null
          /\ sent'[1].response.found = Null
          /\ sent'[1].path = "validation"
          /\ CACHE' = CACHE
          /\ req' = req]_vars

\* a validation failure has just been sent while the cached catalog is expired
\* and another request is refreshing it
C7_Witness ==
  /\ sent # Null
  /\ sent[1].response.status = 400
  /\ CACHE.data # Null
  /\ clock - CACHE.fetchedAt >= 300000
  /\ InFlight # {}

-----------------------------------------------------------------------------
(* Claims about the outcome of a request that obtained a catalog *)

\* the handler has answered the request of pin
Answered == pout # Null /\ pout[1].response # Null
\* the price text holds a number written with two decimals
HasDecimal(s) ==
  \E i \in 1..(Len(s) - 3) :
    IsDigit(Char(s, i)) /\ Char(s, i + 1) = "." /\ IsDigit(Char(s, i + 2)) /\ IsDigit(Char(s, i + 3))
\* the listing matches the query q: one contains the other, or a word of q
\* occurs in the listing's name
EntryMatches(item, q) ==
  LET n == normalize(item.name)
      words == splitTokens(q)
  IN contains(n, q) \/ \E k \in 1..Len(words) : includes(n, words[k])
\* the listings of the dataset that match the submitted model
MatchingEntries(v, model, dataset) ==
  IF normalize(model) = "" THEN {}
  ELSE {k \in 1..Len(dataset) : EntryMatches(dataset[k], matchQuery(v, model))}

\* C8: a request that obtained a catalog is answered with status 200, ok, and
\* exactly one of: found=false and no offer, iff no listing matches the model;
\* found=true and no offer, iff the matched listing's price holds no decimal
\* number; found=true and an offer, iff the matched listing's price holds one.
\* The matched listing is one that matches, and the echo carries the submitted
\* model, the condition, and the notes ("" when there are none).
C8_ThreeOutcomes ==
  Answered =>
    LET body == pin[1].body
        dataset == pout[1].dataset
        resp == pout[1].response[1]
        hits == MatchingEntries(variant, body.model[1], dataset)
        match == bestMatch(variant, body.model[1], dataset)
    IN /\ resp.status = 200 /\ resp.ok /\ resp.error = Null
       /\ resp.found # Null
       /\ (match = Null) <=> (hits = {})
       /\ match # Null => \E k \in hits : dataset[k] = match[1]
       /\ (resp.found[1] = FALSE /\ resp.offer = Null) <=> (hits = {})
       /\ (resp.found[1] = TRUE /\ resp.offer = Null)
            <=> (hits # {} /\ ~HasDecimal(match[1].price))
       /\ (resp.found[1] = TRUE /\ resp.offer # Null)
            <=> (hits # {} /\ HasDecimal(match[1].price))
       /\ resp.offer # Null =>
            resp.referencePrice = Some(match[1].price) /\ resp.echo[1].model = Some(match[1].name)
       /\ resp.echo # Null
       /\ resp.echo[1].submittedModel = body.model[1]
       /\ resp.echo[1].condition = body.condition[1]
       /\ resp.echo[1].notes = (IF body.notes = Null THEN "" ELSE body.notes[1])

\* a matched listing whose price holds no decimal number, and a request without notes
C8_Witness ==
  /\ Answered
  /\ pin[1].body.notes = Null
  /\ pout[1].response[1].found = Some(TRUE)
  /\ pout[1].response[1].offer = Null
  /\ pout[1].response[1].echo[1].notes = ""
  /\ \E k \in 1..Len(pout[1].dataset) : ~HasDecimal(pout[1].dataset[k].price)

\* the hundredths of the decimal numbers in a price text
PriceCents(s) == LET ms == decimalMatches(s) IN {CentsOf(ms[k]) : k \in 1..Len(ms)}
SetMin(S) == CHOOSE x \in S : \A y \in S : x <= y
SetMax(S) == CHOOSE x \in S : \A y \in S : y <= x
\* half of the midpoint of the lowest and the highest price, in hundredths, the
\* half hundredth rounded up: (lo + hi) / 4 + 1/2, rounded down
HalfOfMidpointHalfUp(s) == (SetMin(PriceCents(s)) + SetMax(PriceCents(s)) + 2) \div 4

\* C10: the offer for a matched listing whose price holds a decimal number is
\* half of the midpoint of the lowest and highest number, rounded to two
\* decimals with the half rounded up; a price without one gives no offer.
C10_OfferIsHalfOfMidpointHalfUp ==
  Answered =>
    LET resp == pout[1].response[1]
        match == bestMatch(variant, pin[1].body.model[1], pout[1].dataset)
    IN match # Null =>
         IF HasDecimal(match[1].price)
         THEN resp.offer = Some(HalfOfMidpointHalfUp(match[1].price))
         ELSE resp.offer = Null /\ priceParse(match[1].price) = Null

-----------------------------------------------------------------------------
(* Claims about the matcher *)

\* the words of a text, as a set
Words(s) == LET ws == splitTokens(s) IN {ws[k] : k \in 1..Len(ws)}
\* the model as the matcher of the revision reads it
Query == matchQuery(variant, pin[1].body.model[1])
\* the request is answered and its model is not blank
Matched == Answered /\ normalize(pin[1].body.model[1]) # ""
\* what bestMatch returned for the request
Found == bestMatch(variant, pin[1].body.model[1], pout[1].dataset)

\* C11: on a catalog of one listing, a query that has a word in common with the
\* listing's normalized name is matched to the listing, also when neither text
\* contains the other; the catalog [Joola Perseus Pro IV, $199.99] and the model
\* "perseus pro 4" give found=true, that listing, midpoint 199.99, offer 100.00.
C11_SharedWordMatches ==
  (Matched /\ Len(pout[1].dataset) = 1) =>
    LET listing == pout[1].dataset[1]
        resp == pout[1].response[1]
    IN /\ (Words(Query) \cap Words(normalize(listing.name)) # {}) =>
            Found = Some(listing) /\ resp.found = Some(TRUE)
       /\ (listing = [name |-> "Joola Perseus Pro IV", price |-> "$199.99"]
           /\ pin[1].body.model = Some("perseus pro 4")) =>
            /\ resp.found = Some(TRUE)
            /\ resp.echo[1].model = Some("Joola Perseus Pro IV")
            /\ resp.referencePrice = Some("$199.99")
            /\ resp.referenceMidpoint = Some(19999)
            /\ resp.offer = Some(10000)

\* the example request is answered with the offer, matched by a shared word only
C11_Witness ==
  /\ Matched
  /\ pout[1].dataset = <<[name |-> "Joola Perseus Pro IV", price |-> "$199.99"]>>
  /\ pin[1].body.model = Some("perseus pro 4")
  /\ ~contains(normalize("Joola Perseus Pro IV"), Query)
  /\ Words(Query) \cap Words(normalize("Joola Perseus Pro IV")) # {}
  /\ pout[1].response[1].offer = Some(10000)

-----------------------------------------------------------------------------
(* Claims about what a response discloses *)

\* every text a response carries
ResponseTexts(resp) ==
  {o[1] : o \in {resp.error, resp.message, resp.referencePrice, resp.policy} \ {Null}}
  \cup (IF resp.echo = Null THEN {}
        ELSE {resp.echo[1].submittedModel, resp.echo[1].condition, resp.echo[1].notes}
             \cup (IF resp.echo[1].model = Null THEN {} ELSE {resp.echo[1].model[1]}))
\* the addresses the revisions fetch from, and the names of their hosts
SourceIdentities ==
  {SOURCE_URL(v) : v \in Variants} \cup {"pickleballwarehouse", "pickleballcentral"}
\* the revision that differs from v in the address it fetches from
Twin(v) == IF v = "part_001" THEN "part_000" ELSE IF v = "part_000" THEN "part_001" ELSE v
\* the response as a function of the outcome, the request and the catalog used
ResponseOf(v, path, body, dataset) ==
  IF path = "validation" THEN validationResponse
  ELSE IF path = "failed" THEN failureResponse
  ELSE offerResponse(v, body, dataset[1])

-----------------------------------------------------------------------------
(* Claims about the cache entry *)

\* for each revision, the complete deduplicated listings of each page the
\* upstream may serve
WholeScrapes == [v \in ServerVariants |-> {dedupe(extractItems(v, pg)) : pg \in Pages}]
\* the entry is the one of module load, or holds the whole result of one scrape
CacheIsSnapshot ==
  \/ CACHE = [data |-> Null, fetchedAt |-> 0]
  \/ CACHE.data # Null /\ CACHE.data[1] \in WholeScrapes[variant]
\* this step ends a successful refresh of request r
RefreshEnds(r) ==
  /\ req[r].pc = "fetch"
  /\ sent' # Null /\ sent'[1].to = r /\ sent'[1].path = "refresh"

\* C13: the cached catalog is always either the never-fetched value or the
\* complete deduplicated result of one scrape, and the entry changes only at
\* the end of a successful refresh, catalog and fetchedAt replaced together by
\* that refresh's result and start time.
C13_CacheIsWholeSnapshot ==
  [][/\ CacheIsSnapshot /\ CacheIsSnapshot'
     /\ CACHE' # CACHE =>
          \E r \in Requests :
            /\ RefreshEnds(r)
            /\ CACHE'.data # Null /\ CACHE'.data[1] \in WholeScrapes[variant]
            /\ CACHE'.fetchedAt = req[r].now
            /\ sent'[1].dataset = CACHE'.data
     /\ \A r \in Requests : RefreshEnds(r) => CACHE'.data = sent'[1].dataset]_vars

\* a refresh that started at time 300000, when the cache held a catalog, has replaced
\* the entry by a scrape of one listing
C13_Witness ==
  /\ sent # Null /\ sent[1].path = "refresh" /\ sent[1].hadData
  /\ CACHE = [data |-> Some(<<[name |-> "Bantam", price |-> "$45.00"]>>), fetchedAt |-> 300000]

\* C14: when concurrent requests each refresh the cache, the entry's fetchedAt
\* never decreases: the result of a refresh that started earlier never replaces
\* the entry installed by a refresh that started later.
C14_FetchedAtNeverDecreases ==
  [][CACHE'.fetchedAt >= CACHE.fetchedAt]_vars

-----------------------------------------------------------------------------
(* Claims about the phases of the matcher *)

\* the listings of the catalog whose normalized name contains q or is contained in it
Containing(dataset, q) == {k \in 1..Len(dataset) : contains(normalize(dataset[k].name), q)}
\* min(|name|, |query|)
Overlap(item, q) == MinOf(Len(normalize(item.name)), Len(q))

\* C15: when some listing's normalized name contains the query or is contained
\* in it, bestMatch returns such a listing whose overlap min(|name|, |query|) is
\* the greatest among them, wherever it stands in the catalog.
C15_SubstringPhasePrefersGreatestOverlap ==
  (Matched /\ Containing(pout[1].dataset, Query) # {}) =>
    LET dataset == pout[1].dataset
        among == Containing(dataset, Query)
    IN /\ Found # Null
       /\ \E k \in among : dataset[k] = Found[1]
       /\ \A k \in among : Overlap(dataset[k], Query) <= Overlap(Found[1], Query)

\* C16: when the normalized model equals the normalized name of a listing of the
\* catalog, bestMatch returns that listing.
C16_ExactNameIsReturned ==
  Matched =>
    \A k \in 1..Len(pout[1].dataset) :
      normalize(pout[1].dataset[k].name) = normalize(pin[1].body.model[1])
        => Found = Some(pout[1].dataset[k])

\* the keys of the alias table that the text q contains, by their place in the table
KeysIn(q) == {k \in 1..Len(ALIASES) : includes(q, ALIASES[k][1])}
\* q with the first key it contains replaced by that key's canonical term
FirstAliasOf(q) ==
  IF KeysIn(q) = {} THEN q
  ELSE ALIASES[CHOOSE k \in KeysIn(q) : \A j \in KeysIn(q) : k <= j][2]

\* C17: the query the substring and token phases work on is the normalized model
\* with the first alias key it contains, in the order of the table, replaced by
\* that key's canonical term, and the normalized model itself when it contains
\* no key; "ben johns perseus" becomes "peresus pro iv".
C17_FirstAliasRewritesQuery ==
  Matched =>
    /\ Query = FirstAliasOf(normalize(pin[1].body.model[1]))
    /\ pin[1].body.model = Some("ben johns perseus") => Query = "peresus pro iv"

\* how many words of q occur in the listing's normalized name
Hits(item, q) ==
  LET ws == splitTokens(q)
  IN Cardinality({k \in 1..Len(ws) : includes(normalize(item.name), ws[k])})

\* C18: when no listing contains the query or is contained in it, bestMatch
\* returns none if no word of the query occurs in any listing's name, and
\* otherwise a listing with the greatest number of words occurring in its name
\* and, among those, with the longest name.
C18_TokenFallbackPrefersLongerName ==
  (Matched /\ Containing(pout[1].dataset, Query) = {}) =>
    LET dataset == pout[1].dataset
        scored == {k \in 1..Len(dataset) : Hits(dataset[k], Query) > 0}
    IN IF scored = {} THEN Found = Null
       ELSE /\ Found # Null
            /\ \E k \in scored : dataset[k] = Found[1]
            /\ \A k \in scored :
                 \/ Hits(dataset[k], Query) < Hits(Found[1], Query)
                 \/ /\ Hits(dataset[k], Query) = Hits(Found[1], Query)
                    /\ Len(dataset[k].name) <= Len(Found[1].name)

-----------------------------------------------------------------------------
(* Claims about the catalog a scrape produces *)

\* the listings the extractor kept from the page, before deduplication
Raw == extractItems(variant, pin[1].page)
\* the places in Raw of the listings with the normalized name key
PlacesOf(key) == {j \in 1..Len(Raw) : normalize(Raw[j].name) = key}
FirstPlaceOf(key) == CHOOSE j \in PlacesOf(key) : \A i \in PlacesOf(key) : j <= i
\* the earliest listing among those of the key with the longest price text
KeptFor(key) ==
  Raw[CHOOSE j \in PlacesOf(key) :
        /\ \A i \in PlacesOf(key) : Len(Raw[i].price) <= Len(Raw[j].price)
        /\ \A i \in PlacesOf(key) : Len(Raw[i].price) = Len(Raw[j].price) => j <= i]

\* C19: the catalog of a scrape holds exactly one listing for each normalized
\* name among the raw listings: the one with the longest price text, the
\* earliest on equal length; the catalog is in the order in which the names were
\* first seen.
C19_DedupKeepsLongestPrice ==
  pout # Null =>
    LET dataset == pout[1].dataset
        key(k) == normalize(dataset[k].name)
    IN /\ \A j, k \in 1..Len(dataset) : key(j) = key(k) => j = k
       /\ \A j \in 1..Len(Raw) : \E k \in 1..Len(dataset) : key(k) = normalize(Raw[j].name)
       /\ \A k \in 1..Len(dataset) : PlacesOf(key(k)) # {} /\ dataset[k] = KeptFor(key(k))
       /\ \A j, k \in 1..Len(dataset) : j < k => FirstPlaceOf(key(j)) < FirstPlaceOf(key(k))

\* a scrape in which a later listing with a price of 10 characters replaced the
\* kept one with a price of 6 and took its place, before a name first seen
\* later, and a later listing with a price of the same length replaced nothing
C19_Witness ==
  /\ pout # Null
  /\ Len(Raw) = 7
  /\ Len(pout[1].dataset) = 4
  /\ normalize(Raw[4].name) = normalize(Raw[1].name)
  /\ Len(Raw[4].price) = Len(Raw[1].price)
  /\ pout[1].dataset[1] = Raw[1]
  /\ normalize(Raw[6].name) = normalize(Raw[3].name)
  /\ Len(Raw[3].price) = 6 /\ Len(Raw[6].price) = 10
  /\ pout[1].dataset[3] = Raw[6]
  /\ pout[1].dataset[4] = Raw[7]

-----------------------------------------------------------------------------
(* Claims about a failed refresh *)

\* C20: a refresh that fails, whether it ends in the stale fallback or in the
\* failure response, and every wait between its attempts, leaves the cache
\* entry as it was, catalog and fetchedAt; a valid request that arrives while
\* the cached entry is expired is not answered on arrival but starts an upstream
\* refresh of its own at its first attempt, and no refresh goes beyond 3 attempts.
C20_FailedRefreshLeavesEntry ==
  [][/\ (Sends /\ sent'[1].path \in {"stale", "failed"}) => CACHE' = CACHE
     /\ \A r \in Requests :
          /\ (req[r].pc = "fetch" /\ req'[r].pc = "backoff") => CACHE' = CACHE
          /\ (ReceivedValid(r) /\ CACHE.data # Null /\ clock - CACHE.fetchedAt >= 300000)
               => /\ sent' = Null
                  /\ req'[r].pc = "fetch" /\ req'[r].i = 0 /\ req'[r].now = clock
                  /\ CACHE' = CACHE
          /\ req'[r].i + 1 <= 3]_vars

\* a refresh of the expired entry has failed and is answered from the stale
\* catalog, the entry still dated 0, while another request that arrived on the
\* expired entry is in its own upstream attempt
C20_Witness ==
  /\ sent # Null /\ sent[1].path = "stale" /\ sent[1].hadData
  /\ CACHE.data # Null /\ CACHE.fetchedAt = 0 /\ clock >= 300000
  /\ \E r \in Requests : req[r].pc = "fetch" /\ req[r].hadData /\ req[r].now >= 300000

-----------------------------------------------------------------------------
(* The server with time that runs on: a pending backoff timer always comes  *)
(* due, every upstream attempt settles, and a turn that began ends.  Time   *)
(* advances from one due timer to the next.                                 *)

\* requests arrive up to this time
LiveHorizon == 3000

\* POST /offer arrives, while requests still arrive
Arrive(r, body) == clock <= LiveHorizon /\ Receive(r, body)

\* time runs on to the moment the backoff timer of request r is due
Elapse(r) ==
  /\ sent = Null
  /\ req[r].pc = "backoff"
  /\ clock < req[r].timer[1].setAt + req[r].timer[1].delay
  /\ clock' = req[r].timer[1].setAt + req[r].timer[1].delay
  /\ UNCHANGED <<variant, CACHE, ticks, req, sent, pin, pout>>

LiveNext ==
  \/ \E r \in Requests, body \in Bodies : Arrive(r, body)
  \/ \E r \in Requests, x \in Exchanges : FetchSettles(r, x)
  \/ \E r \in Requests : TimerFires(r)
  \/ \E r \in Requests : Elapse(r)
  \/ TurnEnds

\* The fetch of request r eventually settles: if the handler is again and again
\* waiting for its fetch between turns, the step that takes it out of the fetch
\* (FetchSettles, the only one that does) happens again and again.  This is
\* strong fairness of \E x \in Exchanges : FetchSettles(r, x), which is enabled
\* exactly when sent = Null and req[r].pc = "fetch".
AttemptCompletes(r) ==
  \/ <>[]~(sent = Null /\ req[r].pc = "fetch")
  \/ []<><<req[r].pc = "fetch" /\ req'[r].pc # "fetch">>_vars

\* each upstream attempt eventually completes or throws; time reaches a pending
\* timer and the timer fires; the event loop finishes the turn it is in.  The
\* fairness is strong because a turn that sends a response holds back every
\* other callback until it ends.
LiveSpec ==
  /\ Init
  /\ [][LiveNext]_vars
  /\ \A r \in Requests :
       /\ AttemptCompletes(r)
       /\ SF_vars(Elapse(r))
       /\ SF_vars(TimerFires(r))
  /\ WF_vars(TurnEnds)

\* C21: a request whose handler awaits the upstream is eventually answered, its
\* handler ending in the step that sends its response; a handler ends only by
\* sending the response of its request, a request that does not await the
\* upstream is answered in the step of its arrival, and the retry loop never
\* goes beyond 3 attempts.
C21_EveryRequestIsAnswered ==
  /\ \A r \in Requests :
       (req[r].pc # "idle") ~> (sent # Null /\ sent[1].to = r /\ req[r].pc = "idle")
  /\ [][\A r \in Requests :
          /\ (req[r].pc # "idle" /\ req'[r].pc = "idle") =>
               sent = Null /\ sent' # Null /\ sent'[1].to = r /\ sent'[1].body = req[r].body[1]
          /\ (req[r].pc = "idle" /\ sent = Null /\ sent' # Null /\ sent'[1].to = r) =>
               req'[r].pc = "idle" /\ sent'[1].path \in {"validation", "hit"}
          /\ req'[r].i + 1 <= 3]_vars

\* a request that arrived at time 0 is answered with the failure after its
\* third attempt, the waits of 3000 and 6000 ms behind it
C21_Witness ==
  /\ sent # Null /\ sent[1].path = "failed" /\ sent[1].response.status = 500
  /\ variant = "part_001"
  /\ clock = 9000 /\ ticks = 0

====
